---- MODULE Spec2Model ----
(***************************************************************************)
(* Memory-patch rules of HackAtari.                                        *)
(*   hackatari/games/mspacman.py        : the Ms. Pacman modifications and *)
(*                                        their registry (modif_funcs)     *)
(*   hackatari/shark_modes_fishing_derby.py : the shark modes of           *)
(*                                        FishingDerby (alter_ram, run)    *)
(* The emulator is external: it owns the RAM and is modelled as actions    *)
(* that overwrite cells with values drawn from bounded sets.               *)
(***************************************************************************)
EXTENDS Integers, Sequences, FiniteSets, TLC

VARIABLES
    ram,                \* emulator RAM, the cells the rules touch
    TOGGLE_ORANGE,      \* mspacman.py module globals
    TOGGLE_CYAN,
    TOGGLE_PINK,
    TOGGLE_RED,
    NUMBER_POWER_PILLS,
    LAST_PP_STATUS,
    IS_INVERTED,
    SHARK_MODE,         \* shark_modes_fishing_derby.py module globals
    TOGGLE_HUMAN_MODE,
    step_modifs,        \* lists built by the last modif_funcs call
    reset_modifs,
    raised,             \* exception of the last modif_funcs call, "" if it returned
    lastCall,           \* name of the function that ran last
    locals,             \* what the last call read on entry (its local variables)
    entry,              \* module globals on entry to the last call
    writes,             \* the set_ram calls of the last call, in order
    frame               \* inverted_ms_pacman calls since the last game reset

vars ==
    << ram, TOGGLE_ORANGE, TOGGLE_CYAN, TOGGLE_PINK, TOGGLE_RED,
       NUMBER_POWER_PILLS, LAST_PP_STATUS, IS_INVERTED, SHARK_MODE, TOGGLE_HUMAN_MODE,
       step_modifs, reset_modifs, raised, lastCall, locals, entry, writes, frame >>

----------------------------------------------------------------------------
(* Bounds *)

\* longest configuration list handed to modif_funcs
MaxMods ==
    2

\* inverted_ms_pacman calls explored after one game reset
MaxFrames ==
    3

----------------------------------------------------------------------------
(* Python values that occur in a configuration list: a str is its sequence  *)
(* of characters, a function object is a value of another type.            *)

Str(chars) ==
    [type |-> "str", chars |-> chars, name |-> ""]

FuncObj(name) ==
    [type |-> "function", chars |-> <<>>, name |-> name]

\* Python ==: values of different types are never equal
PyEq(a, b) ==
    /\ a.type = b.type
    /\ a.chars = b.chars
    /\ a.name = b.name

S_caged_ghosts ==
    Str(<<"c", "a", "g", "e", "d", "_", "g", "h", "o", "s", "t", "s">>)

S_disable_orange ==
    Str(<<"d", "i", "s", "a", "b", "l", "e", "_", "o", "r", "a", "n", "g", "e">>)

S_disable_red ==
    Str(<<"d", "i", "s", "a", "b", "l", "e", "_", "r", "e", "d">>)

S_disable_cyan ==
    Str(<<"d", "i", "s", "a", "b", "l", "e", "_", "c", "y", "a", "n">>)

S_disable_pink ==
    Str(<<"d", "i", "s", "a", "b", "l", "e", "_", "p", "i", "n", "k">>)

S_inverted ==
    Str(<<"i", "n", "v", "e", "r", "t", "e", "d">>)

S_power0 ==
    Str(<<"p", "o", "w", "e", "r", "0">>)

S_power1 ==
    Str(<<"p", "o", "w", "e", "r", "1">>)

S_power2 ==
    Str(<<"p", "o", "w", "e", "r", "2">>)

S_power3 ==
    Str(<<"p", "o", "w", "e", "r", "3">>)

S_power4 ==
    Str(<<"p", "o", "w", "e", "r", "4">>)

S_power5 ==
    Str(<<"p", "o", "w", "e", "r", "5">>)

S_power9 ==
    Str(<<"p", "o", "w", "e", "r", "9">>)

S_edible_ghosts ==
    Str(<<"e", "d", "i", "b", "l", "e", "_", "g", "h", "o", "s", "t", "s">>)

S_nonexistent_mod ==
    Str(<<"n", "o", "n", "e", "x", "i", "s", "t", "e", "n", "t", "_", "m", "o", "d">>)

S_powerful ==
    Str(<<"p", "o", "w", "e", "r", "f", "u", "l">>)

S_powerm1 ==
    Str(<<"p", "o", "w", "e", "r", "-", "1">>)

S_pills3 ==
    Str(<<"p", "i", "l", "l", "s", "3">>)

S_power ==
    Str(<<"p", "o", "w", "e", "r">>)

S_empty ==
    Str(<<>>)

----------------------------------------------------------------------------
(* Emulator memory *)

\* the cells of the 128-byte RAM that the rules read or write
Cells ==
    {1, 2, 3, 4, 6, 7, 8, 9, 12, 13, 14, 15, 62, 75, 95, 116, 117}

Byte ==
    0 .. 255

\* RAM before the emulator has produced a frame
RamStart ==
    [c \in Cells |-> 0]

\* a rule under execution: the RAM it sees and the writes it has issued
Running(r) ==
    [ram |-> r, writes |-> <<>>]

\* env.set_ram(cell, value)
set_ram(m, cell, value) ==
    [ram    |-> [m.ram EXCEPT ![cell] = value % 256],
     writes |-> Append(m.writes, <<cell, value % 256>>)]

Range(s) ==
    {s[i] : i \in 1 .. Len(s)}

WritesTo(w, cell) ==
    {i \in 1 .. Len(w) : w[i][1] = cell}

----------------------------------------------------------------------------
(* mspacman.py: helpers *)

\* variant: the two position cells are exchanged
make_edible_swapped(m, ghost_number, x_pos, ram_x, y_pos, ram_y) ==
    set_ram(set_ram(set_ram(m, ghost_number, 130), ram_y, x_pos), ram_x, y_pos)

make_edible(m, ghost_number, x_pos, ram_x, y_pos, ram_y) ==
    set_ram(set_ram(set_ram(m, ghost_number, 130), ram_x, x_pos), ram_y, y_pos)

set_start_condition(m) ==
    LET m1 == make_edible(m, 1, 120, 6, 50, 12)
        m2 == make_edible(m1, 2, 100, 7, 50, 13)
        m3 == make_edible(m2, 3, 80, 8, 50, 14)
        m4 == make_edible(m3, 4, 60, 9, 50, 15)
    IN  set_ram(m4, 116, 255)

RECURSIVE set_ghosts(_, _, _)
\* the loop "i = 1; while i < 5: self.set_ram(i, value); i += 1"
set_ghosts(m, i, value) ==
    IF i < 5 THEN set_ghosts(set_ram(m, i, value), i + 1, value) ELSE m

\* variant: the loop starts at ghost 2
inverted_power_pill_from2(m) ==
    set_ram(set_ghosts(m, 2, 0), 116, 62)

inverted_power_pill(m) ==
    set_ram(set_ghosts(m, 1, 0), 116, 62)

power_pill_is_done(m) ==
    set_ram(set_ghosts(m, 1, 130), 116, 190)

----------------------------------------------------------------------------
(* mspacman.py: the rules, as functions of the RAM and the globals they read *)

\* variant: the cyan branch writes the x cell of the orange ghost
static_ghosts_rule_cell6(r, orange, cyan, pink, red) ==
    LET m0 == Running(r)
        m1 == IF orange THEN set_ram(set_ram(m0, 6, 93), 12, 80) ELSE m0
        m2 == IF cyan THEN set_ram(set_ram(m1, 6, 83), 13, 80) ELSE m1
        m3 == IF pink THEN set_ram(set_ram(m2, 8, 93), 14, 67) ELSE m2
        m4 == IF red THEN set_ram(set_ram(m3, 9, 83), 15, 67) ELSE m3
    IN  m4

static_ghosts_rule(r, orange, cyan, pink, red) ==
    LET m0 == Running(r)
        m1 == IF orange THEN set_ram(set_ram(m0, 6, 93), 12, 80) ELSE m0
        m2 == IF cyan THEN set_ram(set_ram(m1, 7, 83), 13, 80) ELSE m1
        m3 == IF pink THEN set_ram(set_ram(m2, 8, 93), 14, 67) ELSE m2
        m4 == IF red THEN set_ram(set_ram(m3, 9, 83), 15, 67) ELSE m3
    IN  m4

\* variant: the branch of three power pills writes the 95 of two
number_power_pills_rule_95(r, n) ==
    LET m0 == Running(r)
    IN  IF n = 0 THEN set_ram(set_ram(set_ram(m0, 62, 80), 95, 80), 117, 0)
        ELSE IF n = 1 THEN set_ram(set_ram(set_ram(m0, 62, 64), 95, 80), 117, 8)
        ELSE IF n = 2 THEN set_ram(set_ram(set_ram(m0, 62, 0), 95, 80), 117, 40)
        ELSE IF n = 3 THEN set_ram(set_ram(set_ram(m0, 62, 0), 95, 80), 117, 46)
        ELSE m0

number_power_pills_rule(r, n) ==
    LET m0 == Running(r)
    IN  IF n = 0 THEN set_ram(set_ram(set_ram(m0, 62, 80), 95, 80), 117, 0)
        ELSE IF n = 1 THEN set_ram(set_ram(set_ram(m0, 62, 64), 95, 80), 117, 8)
        ELSE IF n = 2 THEN set_ram(set_ram(set_ram(m0, 62, 0), 95, 80), 117, 40)
        ELSE IF n = 3 THEN set_ram(set_ram(set_ram(m0, 62, 0), 95, 64), 117, 46)
        ELSE m0

\* variant: <= for <
TimerNeedsAdjust_le(current_timer) ==
    current_timer <= 250

\* "if current_timer < 250" of edible_ghosts
TimerNeedsAdjust(current_timer) ==
    current_timer < 250

\* "if current_<ghost> == 112"
GhostEaten(current_ghost) ==
    current_ghost = 112

edible_ghosts_rule(r) ==
    LET current_timer == r[116]
        current_orange == r[1]
        current_cyan == r[2]
        current_pink == r[3]
        current_red == r[4]
        m0 == Running(r)
        m1 == IF TimerNeedsAdjust(current_timer) THEN set_ram(m0, 116, 255) ELSE m0
        m2 == IF GhostEaten(current_orange) THEN make_edible(m1, 1, 120, 6, 50, 12) ELSE m1
        m3 == IF GhostEaten(current_cyan) THEN make_edible(m2, 2, 100, 7, 50, 13) ELSE m2
        m4 == IF GhostEaten(current_pink) THEN make_edible(m3, 3, 80, 8, 50, 14) ELSE m3
        m5 == IF GhostEaten(current_red) THEN make_edible(m4, 4, 60, 9, 50, 15) ELSE m4
    IN  m5

\* variant: a window of 2
InRange_2(last_pp_status, current_pp_status) ==
    /\ (last_pp_status - 2) < current_pp_status
    /\ current_pp_status < (last_pp_status + 2)

\* "(LAST_PP_STATUS - 3) < current_pp_status < (LAST_PP_STATUS + 3)"
InRange(last_pp_status, current_pp_status) ==
    /\ (last_pp_status - 3) < current_pp_status
    /\ current_pp_status < (last_pp_status + 3)

\* "if current_timer == 0"
PowerPillRunOut(current_timer) ==
    current_timer = 0

\* result: the RAM, the writes and the new values of the two globals
inverted_ms_pacman_rule(r, last_pp_status, is_inverted) ==
    LET current_pp_status == r[117]
        current_timer == r[116]
        current_orange == r[1]
        current_cyan == r[2]
        current_pink == r[3]
        current_red == r[4]
        m0 == Running(r)
        m1 == IF current_timer < 250 /\ is_inverted = FALSE
              THEN set_ram(m0, 116, 255) ELSE m0
        eaten == ~InRange(last_pp_status, current_pp_status)
        inv2 == IF eaten THEN TRUE ELSE is_inverted
        m2 == IF eaten THEN inverted_power_pill(m1) ELSE m1
        last2 == IF eaten THEN current_pp_status ELSE last_pp_status
        done == PowerPillRunOut(current_timer)
        inv3 == IF done THEN FALSE ELSE inv2
        m3 == IF done THEN power_pill_is_done(m2) ELSE m2
        m4 == IF current_orange = 112 /\ ~inv3 THEN make_edible(m3, 1, 120, 6, 50, 12) ELSE m3
        m5 == IF current_cyan = 112 /\ ~inv3 THEN make_edible(m4, 2, 100, 7, 50, 13) ELSE m4
        m6 == IF current_pink = 112 /\ ~inv3 THEN make_edible(m5, 3, 80, 8, 50, 14) ELSE m5
        m7 == IF current_red = 112 /\ ~inv3 THEN make_edible(m6, 4, 60, 9, 50, 15) ELSE m6
    IN  [ram |-> m7.ram, writes |-> m7.writes,
         LAST_PP_STATUS |-> last2, IS_INVERTED |-> inv3]

----------------------------------------------------------------------------
(* mspacman.py: the registry *)

P_power ==
    <<"p", "o", "w", "e", "r">>

\* variant: only the first character is compared
startswith_first(chars, prefix) ==
    /\ Len(chars) >= 1
    /\ Len(prefix) >= 1
    /\ chars[1] = prefix[1]

\* str.startswith
startswith(chars, prefix) ==
    /\ Len(chars) >= Len(prefix)
    /\ SubSeq(chars, 1, Len(prefix)) = prefix

Digits ==
    <<"0", "1", "2", "3", "4", "5", "6", "7", "8", "9">>

\* int(c) of a one-character string succeeds on a decimal digit only
IsDigit(c) ==
    \E d \in 1 .. Len(Digits) : Digits[d] = c

int(c) ==
    (CHOOSE d \in 1 .. Len(Digits) : Digits[d] = c) - 1

\* variant: 5 is accepted
InvalidNumber_5(mod_n) ==
    mod_n < 0 \/ mod_n > 5

\* "if mod_n < 0 or mod_n > 4"
InvalidNumber(mod_n) ==
    mod_n < 0 \/ mod_n > 4

\* variant: the name is compared with the string "edible_ghosts"
IsEdibleGhosts_str(mod) ==
    PyEq(mod, S_edible_ghosts)

\* "elif mod == edible_ghosts": the right-hand side is the function object
IsEdibleGhosts(mod) ==
    PyEq(mod, FuncObj("edible_ghosts"))

\* the globals modif_funcs writes and the lists it builds
Config(orange, cyan, pink, red, n) ==
    [TOGGLE_ORANGE |-> orange, TOGGLE_CYAN |-> cyan, TOGGLE_PINK |-> pink,
     TOGGLE_RED |-> red, NUMBER_POWER_PILLS |-> n,
     step_modifs |-> <<>>, reset_modifs |-> <<>>, raised |-> ""]

\* one iteration of "for mod in modifs"
modif_funcs_body(c, mod) ==
    IF PyEq(mod, S_caged_ghosts)
    THEN [c EXCEPT !.TOGGLE_CYAN = TRUE, !.TOGGLE_ORANGE = TRUE,
                   !.TOGGLE_RED = TRUE, !.TOGGLE_PINK = TRUE,
                   !.step_modifs = Append(@, "static_ghosts")]
    ELSE IF PyEq(mod, S_disable_orange)
    THEN [c EXCEPT !.TOGGLE_ORANGE = TRUE, !.step_modifs = Append(@, "static_ghosts")]
    ELSE IF PyEq(mod, S_disable_red)
    THEN [c EXCEPT !.TOGGLE_RED = TRUE, !.step_modifs = Append(@, "static_ghosts")]
    ELSE IF PyEq(mod, S_disable_cyan)
    THEN [c EXCEPT !.TOGGLE_CYAN = TRUE, !.step_modifs = Append(@, "static_ghosts")]
    ELSE IF PyEq(mod, S_disable_pink)
    THEN [c EXCEPT !.TOGGLE_PINK = TRUE, !.step_modifs = Append(@, "static_ghosts")]
    ELSE IF mod.type # "str"
    THEN [c EXCEPT !.raised = "AttributeError: startswith"]
    ELSE IF startswith(mod.chars, P_power)
    THEN IF ~IsDigit(mod.chars[Len(mod.chars)])
         THEN [c EXCEPT !.raised = "ValueError: invalid literal for int()"]
         ELSE LET mod_n == int(mod.chars[Len(mod.chars)])
              IN  IF InvalidNumber(mod_n)
                  THEN [c EXCEPT !.raised = "ValueError: Invalid Number of Power Pills"]
                  ELSE [c EXCEPT !.NUMBER_POWER_PILLS = mod_n,
                                 !.reset_modifs = Append(@, "number_power_pills")]
    ELSE IF IsEdibleGhosts(mod)
    THEN [c EXCEPT !.step_modifs = Append(@, "edible_ghosts")]
    ELSE IF PyEq(mod, S_inverted)
    THEN [c EXCEPT !.step_modifs = Append(@, "inverted_ms_pacman"),
                   !.reset_modifs = Append(@, "inverted_ms_pacman_reset")]
    ELSE c

RECURSIVE modif_funcs_loop(_, _, _)
\* the loop from element i on; an exception ends it
modif_funcs_loop(c, modifs, i) ==
    IF i > Len(modifs) \/ c.raised # ""
    THEN c
    ELSE modif_funcs_loop(modif_funcs_body(c, modifs[i]), modifs, i + 1)

\* modif_funcs(modifs) called with the globals at (orange, cyan, pink, red, n)
modif_funcs_rule(modifs, orange, cyan, pink, red, n) ==
    modif_funcs_loop(Config(orange, cyan, pink, red, n), modifs, 1)

----------------------------------------------------------------------------
(* shark_modes_fishing_derby.py *)

\* "if SHARK_MODE < 0 or SHARK_MODE > 4: SHARK_MODE = 0"
ValidSharkMode(sharkmode) ==
    IF sharkmode < 0 \/ sharkmode > 4 THEN 0 ELSE sharkmode

\* the shark-mode block of alter_ram and of the loop body of run
shark_rule(r, mode) ==
    LET m0 == Running(r)
        current_x_position == r[75]
        m1 == IF mode = 1 THEN set_ram(m0, 75, 105) ELSE m0
        m2 == IF mode = 2 THEN set_ram(m1, 75, 25) ELSE m1
        m3 == IF mode = 3 /\ current_x_position = 100 THEN set_ram(m2, 75, 25) ELSE m2
        m4 == IF mode = 3 /\ current_x_position = 30 THEN set_ram(m3, 75, 105) ELSE m3
        m5 == IF mode = 4 /\ current_x_position < 120
              THEN set_ram(m4, 75, current_x_position + 5) ELSE m4
        m6 == IF mode = 4 /\ current_x_position > 120 THEN set_ram(m5, 75, 1) ELSE m5
    IN  IF mode > 0 THEN m6 ELSE m0

----------------------------------------------------------------------------
(* Inputs: configuration lists and the frames the emulator produces *)

Mods ==
    {S_caged_ghosts, S_disable_orange, S_disable_red, S_disable_cyan, S_disable_pink,
     S_inverted, S_power0, S_power1, S_power2, S_power3, S_power4, S_power5, S_power9,
     S_edible_ghosts, S_nonexistent_mod, S_powerful, S_powerm1, S_pills3, S_power,
     S_empty, FuncObj("edible_ghosts")}

StaticMods ==
    {S_caged_ghosts, S_disable_orange, S_disable_red, S_disable_cyan, S_disable_pink,
     S_nonexistent_mod}

ListsOver(S) ==
    UNION {[1 .. n -> S] : n \in 0 .. MaxMods}

\* values of a ghost state cell: normal, eaten, edible
GhostVals ==
    {0, 112, 130}

\* the four ghost state cells as the emulator leaves them after a frame
GhostFrames ==
    {<<130, 130, 130, 130>>, <<0, 0, 0, 0>>, <<112, 130, 130, 130>>,
     <<130, 130, 112, 112>>, <<0, 112, 0, 130>>}

TimerVals ==
    {0, 1, 249, 250, 255}

\* readings of the power pill cell 117
MarkerVals ==
    {10, 60, 61, 62, 63, 64, 65, 66}

\* values of a ghost position: x and y of a place in the cage and of a place
\* outside it
PosVals ==
    {<<93, 80>>, <<83, 67>>, <<40, 40>>}

\* configurations made earlier in the same process (the globals persist)
PrevConfigs ==
    {<<>>, <<S_power1>>, <<S_disable_orange, S_disable_pink>>, <<S_caged_ghosts, S_power3>>}

PosCells ==
    {6, 7, 8, 9, 12, 13, 14, 15}

\* values of the --sharkmode option
SharkOpts ==
    -1 .. 5

----------------------------------------------------------------------------
(* State after import of the modules *)

Globals ==
    [TOGGLE_ORANGE |-> TOGGLE_ORANGE, TOGGLE_CYAN |-> TOGGLE_CYAN,
     TOGGLE_PINK |-> TOGGLE_PINK, TOGGLE_RED |-> TOGGLE_RED,
     NUMBER_POWER_PILLS |-> NUMBER_POWER_PILLS,
     LAST_PP_STATUS |-> LAST_PP_STATUS, IS_INVERTED |-> IS_INVERTED]

\* mspacman.py lines 1-7 (the toggles start at 0, which is false), then an
\* earlier configuration prev of the same process
InitModule(prev) ==
    LET c == modif_funcs_rule(prev, FALSE, FALSE, FALSE, FALSE, 4)
    IN  /\ ram = RamStart
        /\ TOGGLE_ORANGE = c.TOGGLE_ORANGE
        /\ TOGGLE_CYAN = c.TOGGLE_CYAN
        /\ TOGGLE_PINK = c.TOGGLE_PINK
        /\ TOGGLE_RED = c.TOGGLE_RED
        /\ NUMBER_POWER_PILLS = c.NUMBER_POWER_PILLS
        /\ LAST_PP_STATUS = 4
        /\ IS_INVERTED = FALSE
        /\ SHARK_MODE = 0
        /\ TOGGLE_HUMAN_MODE = FALSE
        /\ step_modifs = <<>>
        /\ reset_modifs = <<>>
        /\ raised = ""
        /\ lastCall = "import"
        /\ locals = <<>>
        /\ entry = Globals
        /\ writes = <<>>
        /\ frame = 0

----------------------------------------------------------------------------
(* Actions *)

\* bookkeeping common to every call
Called(name, loc) ==
    /\ lastCall' = name
    /\ locals' = loc
    /\ entry' = Globals

\* a callback is invoked only when modif_funcs returned it in the list
Registered(name, list) ==
    raised = "" /\ name \in Range(list)

\* called once, when the environment is constructed
modif_funcs(modifs) ==
    LET c == modif_funcs_rule(modifs, TOGGLE_ORANGE, TOGGLE_CYAN, TOGGLE_PINK,
                              TOGGLE_RED, NUMBER_POWER_PILLS)
    IN  /\ lastCall = "import"
        /\ TOGGLE_ORANGE' = c.TOGGLE_ORANGE
        /\ TOGGLE_CYAN' = c.TOGGLE_CYAN
        /\ TOGGLE_PINK' = c.TOGGLE_PINK
        /\ TOGGLE_RED' = c.TOGGLE_RED
        /\ NUMBER_POWER_PILLS' = c.NUMBER_POWER_PILLS
        /\ step_modifs' = c.step_modifs
        /\ reset_modifs' = c.reset_modifs
        /\ raised' = c.raised
        /\ writes' = <<>>
        /\ Called("modif_funcs", [modifs |-> modifs])
        /\ UNCHANGED <<ram, LAST_PP_STATUS, IS_INVERTED, SHARK_MODE,
                       TOGGLE_HUMAN_MODE, frame>>

static_ghosts ==
    /\ Registered("static_ghosts", step_modifs)
    /\ LET m == static_ghosts_rule(ram, TOGGLE_ORANGE, TOGGLE_CYAN, TOGGLE_PINK, TOGGLE_RED)
       IN  /\ ram' = m.ram
           /\ writes' = m.writes
    /\ Called("static_ghosts", <<>>)
    /\ UNCHANGED <<TOGGLE_ORANGE, TOGGLE_CYAN, TOGGLE_PINK, TOGGLE_RED,
                   NUMBER_POWER_PILLS, LAST_PP_STATUS, IS_INVERTED, SHARK_MODE,
                   TOGGLE_HUMAN_MODE, step_modifs, reset_modifs, raised, frame>>

number_power_pills ==
    /\ Registered("number_power_pills", reset_modifs)
    /\ LET m == number_power_pills_rule(ram, NUMBER_POWER_PILLS)
       IN  /\ ram' = m.ram
           /\ writes' = m.writes
    /\ Called("number_power_pills", <<>>)
    /\ UNCHANGED <<TOGGLE_ORANGE, TOGGLE_CYAN, TOGGLE_PINK, TOGGLE_RED,
                   NUMBER_POWER_PILLS, LAST_PP_STATUS, IS_INVERTED, SHARK_MODE,
                   TOGGLE_HUMAN_MODE, step_modifs, reset_modifs, raised, frame>>

edible_ghosts ==
    /\ Registered("edible_ghosts", step_modifs)
    /\ LET m == edible_ghosts_rule(ram)
       IN  /\ ram' = m.ram
           /\ writes' = m.writes
    /\ Called("edible_ghosts",
              [current_timer |-> ram[116], current_orange |-> ram[1],
               current_cyan |-> ram[2], current_pink |-> ram[3],
               current_red |-> ram[4]])
    /\ UNCHANGED <<TOGGLE_ORANGE, TOGGLE_CYAN, TOGGLE_PINK, TOGGLE_RED,
                   NUMBER_POWER_PILLS, LAST_PP_STATUS, IS_INVERTED, SHARK_MODE,
                   TOGGLE_HUMAN_MODE, step_modifs, reset_modifs, raised, frame>>

inverted_ms_pacman_reset ==
    /\ Registered("inverted_ms_pacman_reset", reset_modifs)
    /\ LET m == set_start_condition(Running(ram))
       IN  /\ ram' = m.ram
           /\ writes' = m.writes
    /\ LAST_PP_STATUS' = 63
    /\ IS_INVERTED' = FALSE
    /\ frame' = 0
    /\ Called("inverted_ms_pacman_reset", <<>>)
    /\ UNCHANGED <<TOGGLE_ORANGE, TOGGLE_CYAN, TOGGLE_PINK, TOGGLE_RED,
                   NUMBER_POWER_PILLS, SHARK_MODE, TOGGLE_HUMAN_MODE,
                   step_modifs, reset_modifs, raised>>

inverted_ms_pacman ==
    /\ Registered("inverted_ms_pacman", step_modifs)
    /\ frame < MaxFrames
    /\ LET m == inverted_ms_pacman_rule(ram, LAST_PP_STATUS, IS_INVERTED)
       IN  /\ ram' = m.ram
           /\ writes' = m.writes
           /\ LAST_PP_STATUS' = m.LAST_PP_STATUS
           /\ IS_INVERTED' = m.IS_INVERTED
    /\ frame' = frame + 1
    /\ Called("inverted_ms_pacman",
              [current_pp_status |-> ram[117], current_timer |-> ram[116],
               current_orange |-> ram[1], current_cyan |-> ram[2],
               current_pink |-> ram[3], current_red |-> ram[4]])
    /\ UNCHANGED <<TOGGLE_ORANGE, TOGGLE_CYAN, TOGGLE_PINK, TOGGLE_RED,
                   NUMBER_POWER_PILLS, SHARK_MODE, TOGGLE_HUMAN_MODE,
                   step_modifs, reset_modifs, raised>>

\* SharkModesFishingDerby.alter_ram, called by _step_ram in agent mode
alter_ram ==
    /\ ~TOGGLE_HUMAN_MODE
    /\ LET m == shark_rule(ram, SHARK_MODE)
       IN  /\ ram' = m.ram
           /\ writes' = m.writes
    /\ Called("alter_ram", [current_x_position |-> ram[75]])
    /\ UNCHANGED <<TOGGLE_ORANGE, TOGGLE_CYAN, TOGGLE_PINK, TOGGLE_RED,
                   NUMBER_POWER_PILLS, LAST_PP_STATUS, IS_INVERTED, SHARK_MODE,
                   TOGGLE_HUMAN_MODE, step_modifs, reset_modifs, raised, frame>>

\* one iteration of the loop of SharkModesFishingDerbyHuman.run
run ==
    /\ TOGGLE_HUMAN_MODE
    /\ LET m == shark_rule(ram, SHARK_MODE)
       IN  /\ ram' = m.ram
           /\ writes' = m.writes
    /\ Called("run", [current_x_position |-> ram[75]])
    /\ UNCHANGED <<TOGGLE_ORANGE, TOGGLE_CYAN, TOGGLE_PINK, TOGGLE_RED,
                   NUMBER_POWER_PILLS, LAST_PP_STATUS, IS_INVERTED, SHARK_MODE,
                   TOGGLE_HUMAN_MODE, step_modifs, reset_modifs, raised, frame>>

\* the emulator computes a frame: it leaves the RAM at r
Emulator(r) ==
    /\ ram' = r
    /\ writes' = <<>>
    /\ Called("emulator", <<>>)
    /\ UNCHANGED <<TOGGLE_ORANGE, TOGGLE_CYAN, TOGGLE_PINK, TOGGLE_RED,
                   NUMBER_POWER_PILLS, LAST_PP_STATUS, IS_INVERTED, SHARK_MODE,
                   TOGGLE_HUMAN_MODE, step_modifs, reset_modifs, raised, frame>>

\* Ms. Pacman: one ghost moves
EmulatorPositions ==
    \E g \in 1 .. 4, p \in PosVals :
        Emulator([ram EXCEPT ![5 + g] = p[1], ![11 + g] = p[2]])

\* Ms. Pacman: the ghost states, the timer or the power pill cell change;
\* the ghosts are away from their spawn places
EmulatorGhosts ==
    \/ \E g \in GhostFrames :
          Emulator([c \in Cells |-> IF c \in 1 .. 4 THEN g[c]
                                   ELSE IF c \in PosCells THEN 40 ELSE ram[c]])
    \/ \E t \in TimerVals :
          Emulator([c \in Cells |-> IF c = 116 THEN t
                                   ELSE IF c \in PosCells THEN 40 ELSE ram[c]])
    \/ \E pp \in MarkerVals :
          Emulator([c \in Cells |-> IF c = 117 THEN pp
                                   ELSE IF c \in PosCells THEN 40 ELSE ram[c]])

\* Ms. Pacman: the timer counts down or one ghost changes its state
EmulatorEdible ==
    \/ /\ ram[116] > 0
       /\ Emulator([c \in Cells |-> IF c = 116 THEN ram[116] - 1
                                   ELSE IF c \in PosCells THEN 40 ELSE ram[c]])
    \/ \E g \in 1 .. 4, v \in GhostVals :
          Emulator([c \in Cells |-> IF c = g THEN v
                                   ELSE IF c \in PosCells THEN 40 ELSE ram[c]])

\* FishingDerby: the shark is anywhere
EmulatorShark ==
    \E x \in Byte :
        Emulator([ram EXCEPT ![75] = x])

----------------------------------------------------------------------------
(* Specifications *)

\* the registry and the reset callback of the power pill count
Init ==
    \E prev \in PrevConfigs : InitModule(prev)

Next ==
    \/ \E modifs \in ListsOver(Mods) : modif_funcs(modifs)
    \/ number_power_pills

Spec ==
    Init /\ [][Next]_vars

\* static ghosts: configured through the registry, run on every frame
NextStatic ==
    \/ \E modifs \in ListsOver(StaticMods) : modif_funcs(modifs)
    \/ static_ghosts
    \/ EmulatorPositions

InitStatic ==
    \E prev \in PrevConfigs : InitModule(prev)

SpecStatic ==
    InitStatic /\ [][NextStatic]_vars

\* edible_ghosts handed to the environment directly as a step callback
InitEdible ==
    \E t \in Byte, g \in [1 .. 4 -> GhostVals] :
        /\ ram = [c \in Cells |-> IF c \in 1 .. 4 THEN g[c]
                                  ELSE IF c = 116 THEN t
                                  ELSE IF c \in PosCells THEN 40 ELSE 0]
        /\ TOGGLE_ORANGE = FALSE
        /\ TOGGLE_CYAN = FALSE
        /\ TOGGLE_PINK = FALSE
        /\ TOGGLE_RED = FALSE
        /\ NUMBER_POWER_PILLS = 4
        /\ LAST_PP_STATUS = 4
        /\ IS_INVERTED = FALSE
        /\ SHARK_MODE = 0
        /\ TOGGLE_HUMAN_MODE = FALSE
        /\ step_modifs = <<"edible_ghosts">>
        /\ reset_modifs = <<>>
        /\ raised = ""
        /\ lastCall = "emulator"
        /\ locals = <<>>
        /\ entry = Globals
        /\ writes = <<>>
        /\ frame = 0

NextEdible ==
    \/ edible_ghosts
    \/ EmulatorEdible

SpecEdible ==
    InitEdible /\ [][NextEdible]_vars

\* inverted mode: modif_funcs(["inverted"]) has returned and the game was reset
InitInverted ==
    LET c == modif_funcs_rule(<<S_inverted>>, FALSE, FALSE, FALSE, FALSE, 4)
        m == set_start_condition(Running(RamStart))
    IN  /\ ram = m.ram
        /\ TOGGLE_ORANGE = c.TOGGLE_ORANGE
        /\ TOGGLE_CYAN = c.TOGGLE_CYAN
        /\ TOGGLE_PINK = c.TOGGLE_PINK
        /\ TOGGLE_RED = c.TOGGLE_RED
        /\ NUMBER_POWER_PILLS = c.NUMBER_POWER_PILLS
        /\ LAST_PP_STATUS = 63
        /\ IS_INVERTED = FALSE
        /\ SHARK_MODE = 0
        /\ TOGGLE_HUMAN_MODE = FALSE
        /\ step_modifs = c.step_modifs
        /\ reset_modifs = c.reset_modifs
        /\ raised = c.raised
        /\ lastCall = "inverted_ms_pacman_reset"
        /\ locals = <<>>
        /\ entry = [Globals EXCEPT !.LAST_PP_STATUS = 4]
        /\ writes = m.writes
        /\ frame = 0

NextInverted ==
    \/ inverted_ms_pacman
    \/ inverted_ms_pacman_reset
    \/ EmulatorGhosts

SpecInverted ==
    InitInverted /\ [][NextInverted]_vars

\* FishingDerby with the parsed options
InitShark ==
    \E sharkmode \in SharkOpts, human \in BOOLEAN :
        /\ ram = RamStart
        /\ TOGGLE_ORANGE = FALSE
        /\ TOGGLE_CYAN = FALSE
        /\ TOGGLE_PINK = FALSE
        /\ TOGGLE_RED = FALSE
        /\ NUMBER_POWER_PILLS = 4
        /\ LAST_PP_STATUS = 4
        /\ IS_INVERTED = FALSE
        /\ SHARK_MODE = ValidSharkMode(sharkmode)
        /\ TOGGLE_HUMAN_MODE = human
        /\ step_modifs = <<>>
        /\ reset_modifs = <<>>
        /\ raised = ""
        /\ lastCall = "import"
        /\ locals = <<>>
        /\ entry = Globals
        /\ writes = <<>>
        /\ frame = 0

NextShark ==
    \/ alter_ram
    \/ run
    \/ EmulatorShark

SpecShark ==
    InitShark /\ [][NextShark]_vars

----------------------------------------------------------------------------
(* Properties *)

Abs(x) ==
    IF x < 0 THEN -x ELSE x

\* the documented cells of the four ghosts: state cell, position cells,
\* spawn coordinate and cage coordinate
Ghosts ==
    <<[state |-> 1, xcell |-> 6, ycell |-> 12, spawnx |-> 120, spawny |-> 50,
       cagex |-> 93, cagey |-> 80],
      [state |-> 2, xcell |-> 7, ycell |-> 13, spawnx |-> 100, spawny |-> 50,
       cagex |-> 83, cagey |-> 80],
      [state |-> 3, xcell |-> 8, ycell |-> 14, spawnx |-> 80, spawny |-> 50,
       cagex |-> 93, cagey |-> 67],
      [state |-> 4, xcell |-> 9, ycell |-> 15, spawnx |-> 60, spawny |-> 50,
       cagex |-> 83, cagey |-> 67]>>

\* the last call of inverted_ms_pacman made no transition to INVERTED
NoInvertedTransition ==
    /\ IS_INVERTED = entry.IS_INVERTED
    /\ \A i \in 1 .. 4 : <<i, 0>> \notin Range(writes)
    /\ <<116, 62>> \notin Range(writes)
    /\ LAST_PP_STATUS = entry.LAST_PP_STATUS

\* C1 as stated: a marker reading within 3 of the baseline, with a non-zero
\* timer reading, causes no transition to INVERTED and keeps the baseline.
C1_MarkerToleranceWithin3 ==
    (/\ lastCall = "inverted_ms_pacman"
     /\ Abs(locals.current_pp_status - entry.LAST_PP_STATUS) <= 3
     /\ locals.current_timer # 0)
        => NoInvertedTransition

\* C1 amended: a marker reading within 2 of the baseline (strictly less than 3
\* away), with a non-zero timer reading, causes no transition to INVERTED
\* and keeps the baseline.
C1_MarkerToleranceWithin2 ==
    (/\ lastCall = "inverted_ms_pacman"
     /\ Abs(locals.current_pp_status - entry.LAST_PP_STATUS) <= 2
     /\ locals.current_timer # 0)
        => NoInvertedTransition

C1_Witness ==
    /\ lastCall = "inverted_ms_pacman"
    /\ Abs(locals.current_pp_status - entry.LAST_PP_STATUS) = 2
    /\ locals.current_timer # 0
    /\ entry.IS_INVERTED = FALSE
    /\ IS_INVERTED = FALSE
    /\ LAST_PP_STATUS = entry.LAST_PP_STATUS

\* the names the registry documents
KnownNames ==
    {S_caged_ghosts, S_disable_orange, S_disable_red, S_disable_cyan,
     S_disable_pink, S_inverted}

BeginsWithPower(mod) ==
    /\ Len(mod.chars) >= 5
    /\ mod.chars[1] = "p"
    /\ mod.chars[2] = "o"
    /\ mod.chars[3] = "w"
    /\ mod.chars[4] = "e"
    /\ mod.chars[5] = "r"

DigitChars ==
    {"0", "1", "2", "3", "4", "5", "6", "7", "8", "9"}

\* "powerN" with one digit N
IsPowerN(mod) ==
    /\ mod.type = "str"
    /\ Len(mod.chars) = 6
    /\ BeginsWithPower(mod)
    /\ mod.chars[6] \in DigitChars

\* the N of "powerN"
PowerN(mod) ==
    CHOOSE n \in 0 .. 9 : Digits[n + 1] = mod.chars[6]

\* a name string that is no known modification
UnknownName(mod) ==
    /\ mod.type = "str"
    /\ mod \notin KnownNames
    /\ ~IsPowerN(mod)

\* an unknown name that does not begin with "power"
ForeignName(mod) ==
    /\ UnknownName(mod)
    /\ ~BeginsWithPower(mod)

\* the list modifs without its elements that satisfy Drop
Without(modifs, Drop(_)) ==
    SelectSeq(modifs, LAMBDA mod : ~Drop(mod))

\* the last modif_funcs call ended as it ends on the list expected
SameOutcomeAs(expected) ==
    LET c == modif_funcs_rule(expected, entry.TOGGLE_ORANGE, entry.TOGGLE_CYAN,
                              entry.TOGGLE_PINK, entry.TOGGLE_RED,
                              entry.NUMBER_POWER_PILLS)
    IN  /\ raised = c.raised
        /\ step_modifs = c.step_modifs
        /\ reset_modifs = c.reset_modifs
        /\ Globals = [entry EXCEPT !.TOGGLE_ORANGE = c.TOGGLE_ORANGE,
                                   !.TOGGLE_CYAN = c.TOGGLE_CYAN,
                                   !.TOGGLE_PINK = c.TOGGLE_PINK,
                                   !.TOGGLE_RED = c.TOGGLE_RED,
                                   !.NUMBER_POWER_PILLS = c.NUMBER_POWER_PILLS]

\* C2 as stated: a list of unknown names only configures without an error
\* into two empty callback lists, and in a mixed list the unknown names
\* change nothing: the call ends as on the list without them.
C2_UnknownNamesIgnored ==
    lastCall = "modif_funcs" =>
        /\ (\A i \in 1 .. Len(locals.modifs) : UnknownName(locals.modifs[i]))
              => (raised = "" /\ step_modifs = <<>> /\ reset_modifs = <<>>)
        /\ (\A i \in 1 .. Len(locals.modifs) : locals.modifs[i].type = "str")
              => SameOutcomeAs(Without(locals.modifs, UnknownName))

\* C2 amended: the same for the unknown names that do not begin with "power".
C2_ForeignNamesIgnored ==
    lastCall = "modif_funcs" =>
        /\ (\A i \in 1 .. Len(locals.modifs) : ForeignName(locals.modifs[i]))
              => (raised = "" /\ step_modifs = <<>> /\ reset_modifs = <<>>
                  /\ Globals = entry)
        /\ (\A i \in 1 .. Len(locals.modifs) : locals.modifs[i].type = "str")
              => SameOutcomeAs(Without(locals.modifs, ForeignName))

C2_Witness ==
    /\ lastCall = "modif_funcs"
    /\ locals.modifs = <<S_nonexistent_mod, S_disable_red>>
    /\ raised = ""
    /\ step_modifs = <<"static_ghosts">>
    /\ reset_modifs = <<>>

\* the outcome of the loop of the last modif_funcs call over the first i names
AfterNames(i) ==
    modif_funcs_rule(SubSeq(locals.modifs, 1, i), entry.TOGGLE_ORANGE,
                     entry.TOGGLE_CYAN, entry.TOGGLE_PINK, entry.TOGGLE_RED,
                     entry.NUMBER_POWER_PILLS)

\* C3: when the loop of modif_funcs comes to a name "powerN", N > 4 makes the
\* call fail with the ValueError of the range check, return no lists and leave
\* NUMBER_POWER_PILLS as it was; N <= 4 sets NUMBER_POWER_PILLS to N and
\* appends number_power_pills to the reset list.  After "power2" the reset
\* callback writes 62:=0, 95:=80, 117:=40.
C3_PowerPillValidation ==
    /\ lastCall = "modif_funcs" =>
         \A i \in 1 .. Len(locals.modifs) :
            (AfterNames(i - 1).raised = "" /\ IsPowerN(locals.modifs[i])) =>
               IF PowerN(locals.modifs[i]) > 4
               THEN /\ raised = "ValueError: Invalid Number of Power Pills"
                    /\ NUMBER_POWER_PILLS = AfterNames(i - 1).NUMBER_POWER_PILLS
                    /\ (\A j \in 1 .. i - 1 : ~BeginsWithPower(locals.modifs[j]))
                          => NUMBER_POWER_PILLS = entry.NUMBER_POWER_PILLS
               ELSE /\ AfterNames(i).raised = ""
                    /\ AfterNames(i).NUMBER_POWER_PILLS = PowerN(locals.modifs[i])
                    /\ AfterNames(i).reset_modifs =
                          Append(AfterNames(i - 1).reset_modifs, "number_power_pills")
                    /\ (i = Len(locals.modifs)) =>
                          /\ raised = ""
                          /\ NUMBER_POWER_PILLS = PowerN(locals.modifs[i])
                          /\ "number_power_pills" \in Range(reset_modifs)
    /\ (lastCall = "number_power_pills" /\ NUMBER_POWER_PILLS = 2) =>
          /\ writes = << <<62, 0>>, <<95, 80>>, <<117, 40>> >>
          /\ ram[62] = 0 /\ ram[95] = 80 /\ ram[117] = 40

C3_Witness ==
    /\ lastCall = "modif_funcs"
    /\ locals.modifs = <<S_disable_cyan, S_power5>>
    /\ entry.NUMBER_POWER_PILLS = 3
    /\ raised = "ValueError: Invalid Number of Power Pills"
    /\ NUMBER_POWER_PILLS = 3

\* C4: from NORMAL with baseline 63, a step that reads a marker outside the
\* window and a non-zero timer ends INVERTED with the ghost cells at 0, the
\* timer at 62 and the baseline at the reading; a following step that reads
\* timer 0 ends NORMAL with the ghost cells at 130 and the timer at 190.
C4_InvertedSequence ==
    /\ (/\ lastCall = "inverted_ms_pacman"
        /\ entry.IS_INVERTED = FALSE
        /\ entry.LAST_PP_STATUS = 63
        /\ Abs(locals.current_pp_status - 63) >= 3
        /\ locals.current_timer # 0)
          => /\ IS_INVERTED = TRUE
             /\ \A i \in 1 .. 4 : ram[i] = 0
             /\ ram[116] = 62
             /\ LAST_PP_STATUS = locals.current_pp_status
    /\ (/\ lastCall = "inverted_ms_pacman"
        /\ entry.IS_INVERTED = TRUE
        /\ locals.current_timer = 0)
          => /\ IS_INVERTED = FALSE
             /\ \A i \in 1 .. 4 : ram[i] = 130
             /\ ram[116] = 190

\* the second step of the scenario: the first call after the reset went from
\* NORMAL, baseline 63, to INVERTED on reading 10; this call read timer 0
C4_Witness ==
    /\ frame = 2
    /\ lastCall = "inverted_ms_pacman"
    /\ entry.IS_INVERTED = TRUE
    /\ entry.LAST_PP_STATUS = 10
    /\ locals.current_pp_status = 10
    /\ locals.current_timer = 0
    /\ IS_INVERTED = FALSE
    /\ ram[116] = 190

\* what the last call read from the state cell of ghost g
ReadState(g) ==
    IF g = 1 THEN locals.current_orange
    ELSE IF g = 2 THEN locals.current_cyan
    ELSE IF g = 3 THEN locals.current_pink
    ELSE locals.current_red

\* C5: after a step of edible_ghosts a ghost whose state cell read 112 has
\* state 130 and sits at its spawn coordinate; the cells of a ghost whose
\* state cell read another value are not written.
C5_EdibleRespawn ==
    lastCall = "edible_ghosts" =>
        \A g \in 1 .. 4 :
            IF ReadState(g) = 112
            THEN /\ ram[Ghosts[g].state] = 130
                 /\ ram[Ghosts[g].xcell] = Ghosts[g].spawnx
                 /\ ram[Ghosts[g].ycell] = Ghosts[g].spawny
            ELSE /\ WritesTo(writes, Ghosts[g].state) = {}
                 /\ WritesTo(writes, Ghosts[g].xcell) = {}
                 /\ WritesTo(writes, Ghosts[g].ycell) = {}
                 /\ ram[Ghosts[g].state] = ReadState(g)

C5_Witness ==
    /\ lastCall = "edible_ghosts"
    /\ locals.current_pink = 112
    /\ locals.current_orange = 0
    /\ ram[3] = 130
    /\ ram[8] = 80
    /\ ram[14] = 50
    /\ ram[6] = 40

\* C6: after a step of edible_ghosts the timer cell is 255 if it read below
\* 250 and is left unwritten if it read 250 or more; it is at least 250.
C6_EdibleTimerFloor ==
    lastCall = "edible_ghosts" =>
        /\ locals.current_timer < 250 => ram[116] = 255
        /\ locals.current_timer >= 250 =>
              (ram[116] = locals.current_timer /\ WritesTo(writes, 116) = {})
        /\ ram[116] >= 250

C6_Witness ==
    /\ lastCall = "edible_ghosts"
    /\ locals.current_timer = 249
    /\ ram[116] = 255

\* the documented triple of cells 62, 95, 117 for each count
Triple(n) ==
    IF n = 0 THEN << <<62, 80>>, <<95, 80>>, <<117, 0>> >>
    ELSE IF n = 1 THEN << <<62, 64>>, <<95, 80>>, <<117, 8>> >>
    ELSE IF n = 2 THEN << <<62, 0>>, <<95, 80>>, <<117, 40>> >>
    ELSE IF n = 3 THEN << <<62, 0>>, <<95, 64>>, <<117, 46>> >>
    ELSE <<>>

\* C7: one call of number_power_pills writes exactly the triple of the
\* configured count to cells 62, 95, 117, and nothing when the count is 4.
C7_TokenCountLookup ==
    lastCall = "number_power_pills" =>
        /\ NUMBER_POWER_PILLS \in 0 .. 4
        /\ writes = Triple(NUMBER_POWER_PILLS)
        /\ \A i \in 1 .. Len(writes) : ram[writes[i][1]] = writes[i][2]

C7_Witness ==
    /\ lastCall = "number_power_pills"
    /\ NUMBER_POWER_PILLS = 3
    /\ ram[62] = 0
    /\ ram[95] = 64
    /\ ram[117] = 46

Toggle(g) ==
    IF g = 1 THEN TOGGLE_ORANGE
    ELSE IF g = 2 THEN TOGGLE_CYAN
    ELSE IF g = 3 THEN TOGGLE_PINK
    ELSE TOGGLE_RED

\* C8: static_ghosts is idempotent (a second call right after a call leaves
\* the memory as it is), pins the two position cells of every enabled ghost
\* to its cage coordinate and writes no cell of a disabled ghost.
C8_StaticGhostsIdempotent ==
    /\ [][(lastCall = "static_ghosts" /\ lastCall' = "static_ghosts") => ram' = ram]_vars
    /\ [](lastCall = "static_ghosts" =>
            /\ \A g \in 1 .. 4 :
                 IF Toggle(g)
                 THEN /\ ram[Ghosts[g].xcell] = Ghosts[g].cagex
                      /\ ram[Ghosts[g].ycell] = Ghosts[g].cagey
                 ELSE /\ WritesTo(writes, Ghosts[g].xcell) = {}
                      /\ WritesTo(writes, Ghosts[g].ycell) = {}
            /\ \A i \in 1 .. Len(writes) : writes[i][1] \in PosCells)

C8_Witness ==
    /\ lastCall = "static_ghosts"
    /\ TOGGLE_PINK
    /\ ~TOGGLE_RED
    /\ ram[8] = 93
    /\ ram[14] = 67
    /\ ram[9] = 40
    /\ ram[15] = 40
    /\ Len(step_modifs) = 2

\* C9: whatever list of names modif_funcs is given, the step list never holds
\* edible_ghosts.
C9_EdibleGhostsUnreachable ==
    "edible_ghosts" \notin Range(step_modifs)

C9_Witness ==
    /\ lastCall = "modif_funcs"
    /\ locals.modifs = <<S_edible_ghosts, S_disable_orange>>
    /\ raised = ""
    /\ step_modifs = <<"static_ghosts">>

\* C10: in shark mode 4 a call advances the shark by 5 when cell 75 reads
\* below 120 and sets it back to 1 when it reads 120 or more.
C10_SharkSpeedMode ==
    (lastCall \in {"alter_ram", "run"} /\ SHARK_MODE = 4) =>
        /\ locals.current_x_position < 120 => ram[75] = locals.current_x_position + 5
        /\ locals.current_x_position >= 120 => ram[75] = 1

====
